---- MODULE Spec2Model ----
(***************************************************************************)
(* Model of src/app.py (Responsys content tools): the RPL tag validator    *)
(* validate_and_clean_rpl, the delimited-text load attempts of             *)
(* load_and_prep_data, and the two generators generate_csv_logic and       *)
(* generate_json_logic working on one loaded table.                        *)
(*                                                                         *)
(* A text is a tuple of characters, each a string; the seven typographic   *)
(* characters of the replacements dict are written by name ("LDQUO" for    *)
(* U+201C, "HELLIP" for U+2026, ...).  An absent cell (pandas NaN) is the  *)
(* one-element tuple NaN, which is no text.  Names of columns, languages,  *)
(* fields and modules are strings.                                         *)
(*                                                                         *)
(* Three specifications share the variables: SpecValidator applies the     *)
(* validator to every text up to MaxLen, SpecLoader runs the parse         *)
(* attempts on every kind of delimited file, Spec calls the generators, in *)
(* any order and any number of times, on a loaded table.                   *)
(*                                                                         *)
(* Not represented: the Excel branch of the loader and clean_headers, the  *)
(* Description column (melt carries it, nothing reads it), absent metadata *)
(* cells, quoting in to_csv, and exceptions raised inside pandas.          *)
(***************************************************************************)
EXTENDS Integers, Sequences, FiniteSets, TLC

VARIABLES
    text, vpc, cleaned, error_msg,          \* validate_and_clean_rpl: argument, position, results
    file, lpc, pos, log, df_cols, load_err, \* load_and_prep_data, delimited-text branch
    orig, df, existing_opt, lang_cols,      \* the loaded table: as loaded, as it is now, its columns
    call, arg, out                          \* the last generator call, the table it was given, its result

vars == <<text, vpc, cleaned, error_msg, file, lpc, pos, log, df_cols, load_err,
          orig, df, existing_opt, lang_cols, call, arg, out>>

vvars == <<text, vpc, cleaned, error_msg>>
lvars == <<file, lpc, pos, log, df_cols, load_err>>
tvars == <<orig, df, existing_opt, lang_cols, call, arg, out>>

\* ---------------------------------------------------------------- bounds
MaxLen == 4          \* longest text given to the validator on its own
ContentRows == 2     \* rows of the tables whose cell texts vary
ShapeRows == 4       \* rows of the tables whose metadata varies
MaxCols == 3         \* most columns a parse attempt of the loader yields

\* ---------------------------------------------------------------- texts
NaN == <<"NaN">>
Empty == <<>>
None == <<>>

WhiteSpace == {" ", "\t", "\n", "\r"}

\* str.strip(): leading and trailing whitespace removed
RECURSIVE LStrip(_)
LStrip(t) == IF t # <<>> /\ Head(t) \in WhiteSpace THEN LStrip(Tail(t)) ELSE t

RECURSIVE RStrip(_)
RStrip(t) ==
    IF t # <<>> /\ t[Len(t)] \in WhiteSpace THEN RStrip(SubSeq(t, 1, Len(t) - 1)) ELSE t

Strip(t) == RStrip(LStrip(t))

\* the replacements dict: one character in, a string out
Replacement(c) ==
    CASE c = "LDQUO" -> <<"\"">>
      [] c = "RDQUO" -> <<"\"">>
      [] c = "RSQUO" -> <<"'">>
      [] c = "LSQUO" -> <<"'">>
      [] c = "HELLIP" -> <<".", ".", ".">>
      [] c = "NDASH" -> <<"-">>
      [] c = "MDASH" -> <<"-">>
      [] OTHER -> <<c>>

RECURSIVE Typography(_)
Typography(t) == IF t = <<>> THEN <<>> ELSE Replacement(Head(t)) \o Typography(Tail(t))

\* text.count('${'): non-overlapping occurrences, scanning left to right from i
RECURSIVE CountOpenFrom(_, _)
CountOpenFrom(t, i) ==
    IF i + 1 > Len(t) THEN 0
    ELSE IF t[i] = "$" /\ t[i + 1] = "{" THEN 1 + CountOpenFrom(t, i + 2)
    ELSE CountOpenFrom(t, i + 1)

CountOpen(t) == CountOpenFrom(t, 1)

\* text.count('}')
RECURSIVE CountClose(_)
CountClose(t) ==
    IF t = <<>> THEN 0 ELSE (IF Head(t) = "}" THEN 1 ELSE 0) + CountClose(Tail(t))

\* re.search(r'\$\{\s+', text)
SpaceAfterOpen(t) ==
    \E i \in 1..Len(t) :
        i + 2 <= Len(t) /\ t[i] = "$" /\ t[i + 1] = "{" /\ t[i + 2] \in WhiteSpace

\* re.search(r'\s+\}', text)
SpaceBeforeClose(t) ==
    \E i \in 1..Len(t) : i + 1 <= Len(t) /\ t[i] \in WhiteSpace /\ t[i + 1] = "}"

Critical(o, c) == <<"CRITICAL", o, c>>
Warning == <<"WARNING">>

CleanText(val) == Typography(Strip(val))

\* the slip of counting only surplus open markers
BracesMismatchMut(t) == CountOpen(t) > CountClose(t)
BracesMismatch(t) == CountOpen(t) # CountClose(t)

\* validate_and_clean_rpl(text) -> [text, err]
validate_and_clean_rpl(val) ==
    IF val = NaN \/ val = Empty THEN [text |-> Empty, err |-> None]
    ELSE LET t == CleanText(val) IN
         IF BracesMismatch(t)
         THEN [text |-> t, err |-> Critical(CountOpen(t), CountClose(t))]
         ELSE IF SpaceAfterOpen(t) \/ SpaceBeforeClose(t)
         THEN [text |-> t, err |-> Warning]
         ELSE [text |-> t, err |-> None]

\* ---------------------------------------------------------------- validator on its own
Alphabet == {"$", "{", "}", " ", "a", "HELLIP"}

Texts == UNION {[1..n -> Alphabet] : n \in 0..MaxLen}

IdleValidator == text = NaN /\ vpc = "idle" /\ cleaned = Empty /\ error_msg = None
IdleLoader ==
    /\ file = <<"raise", "raise", "raise">> /\ lpc = "idle" /\ pos = 0
    /\ log = <<>> /\ df_cols = 0 /\ load_err = "none"
IdleTable ==
    /\ orig = <<>> /\ df = <<>> /\ existing_opt = {} /\ lang_cols = <<>>
    /\ call = <<"none">> /\ arg = <<>> /\ out = [kind |-> "none"]

InitValidator ==
    /\ text \in Texts \cup {NaN}
    /\ vpc = "call" /\ cleaned = Empty /\ error_msg = None
    /\ IdleLoader /\ IdleTable

Validate ==
    /\ vpc = "call"
    /\ LET r == validate_and_clean_rpl(text) IN
        /\ cleaned' = r.text
        /\ error_msg' = r.err
    /\ vpc' = "done"
    /\ UNCHANGED <<text>>
    /\ UNCHANGED lvars /\ UNCHANGED tvars

NextValidator == Validate

SpecValidator == InitValidator /\ [][NextValidator]_vars

\* ---------------------------------------------------------------- load_and_prep_data, delimited text
\* What pd.read_csv makes of the uploaded file is a property of the file: for each of the
\* three ways of reading it (default delimiter, sep=';', sniffing) it raises or yields a
\* table of n >= 1 columns.  file = <<default, semicolon, sniffed>>.
Raise == <<"raise">>
Ok(n) == <<"ok", n>>
Outcomes == {Raise} \cup {Ok(n) : n \in 1..MaxCols}

\* pd.read_csv on the stream where it stands: a stream already read to its end has no
\* columns left to parse (EmptyDataError)
read_csv(which) == IF pos = 0 THEN file[which] ELSE Raise

\* the slip of retrying a parse of two columns as well
NeedsSemicolonMut(o) == o[2] <= 2
\* len(df.columns) <= 1
NeedsSemicolon(o) == o[2] <= 1

\* critical_cols: Priority, Module_Type, DB_Field_Name
CriticalCols == {"Priority", "Module_Type", "DB_Field_Name"}

InitLoader ==
    /\ file \in Outcomes \X Outcomes \X Outcomes
    /\ lpc = "default" /\ pos = 0 /\ log = <<>> /\ df_cols = 0 /\ load_err = "none"
    /\ IdleValidator /\ IdleTable

\* df = pd.read_csv(uploaded_file)
TryDefault ==
    /\ lpc = "default"
    /\ LET o == read_csv(1) IN
        /\ log' = Append(log, "default")
        /\ pos' = 1
        /\ IF o = Raise THEN lpc' = "except" /\ UNCHANGED df_cols
           ELSE IF NeedsSemicolon(o) THEN lpc' = "rewind" /\ df_cols' = o[2]
           ELSE lpc' = "prep" /\ df_cols' = o[2]
    /\ UNCHANGED <<file, load_err>> /\ UNCHANGED vvars /\ UNCHANGED tvars

\* uploaded_file.seek(0) before the semicolon attempt
RewindForSemicolon ==
    /\ lpc = "rewind"
    /\ pos' = 0
    /\ log' = Append(log, "seek")
    /\ lpc' = "semicolon"
    /\ UNCHANGED <<file, df_cols, load_err>> /\ UNCHANGED vvars /\ UNCHANGED tvars

\* df = pd.read_csv(uploaded_file, sep=';')
TrySemicolon ==
    /\ lpc = "semicolon"
    /\ LET o == read_csv(2) IN
        /\ log' = Append(log, "semicolon")
        /\ pos' = 1
        /\ IF o = Raise THEN lpc' = "except" /\ UNCHANGED df_cols
           ELSE lpc' = "prep" /\ df_cols' = o[2]
    /\ UNCHANGED <<file, load_err>> /\ UNCHANGED vvars /\ UNCHANGED tvars

\* except: uploaded_file.seek(0)
RewindForSniff ==
    /\ lpc = "except"
    /\ pos' = 0
    /\ log' = Append(log, "seek")
    /\ lpc' = "sniff"
    /\ UNCHANGED <<file, df_cols, load_err>> /\ UNCHANGED vvars /\ UNCHANGED tvars

\* df = pd.read_csv(uploaded_file, sep=None, engine='python'); an error here reaches the
\* outer except, which returns str(e)
TrySniff ==
    /\ lpc = "sniff"
    /\ LET o == read_csv(3) IN
        /\ log' = Append(log, "sniff")
        /\ pos' = 1
        /\ IF o = Raise THEN lpc' = "done" /\ load_err' = "parse" /\ UNCHANGED df_cols
           ELSE lpc' = "prep" /\ df_cols' = o[2] /\ UNCHANGED load_err
    /\ UNCHANGED <<file>> /\ UNCHANGED vvars /\ UNCHANGED tvars

\* steps B-D on the parsed table: the three critical columns are among its columns or the
\* load ends with "Error: Missing columns"; which names the header holds is the file's
PrepColumns ==
    /\ lpc = "prep"
    /\ \E missing \in BOOLEAN :
        /\ df_cols < Cardinality(CriticalCols) => missing
        /\ load_err' = IF missing THEN "missing" ELSE "none"
    /\ lpc' = "done"
    /\ UNCHANGED <<file, pos, log, df_cols>> /\ UNCHANGED vvars /\ UNCHANGED tvars

NextLoader ==
    \/ TryDefault
    \/ RewindForSemicolon
    \/ TrySemicolon
    \/ RewindForSniff
    \/ TrySniff
    \/ PrepColumns

SpecLoader == InitLoader /\ [][NextLoader]_vars


\* ---------------------------------------------------------------- the loaded table
\* df is the sequence of the table's rows.  A row holds the three critical columns, the
\* optional metadata columns (NoColumn where the table has no such column: existing_opt is
\* the set of those it has) and cells, the text or NaN of each language column.  Every
\* metadata cell holds a value; Description is carried by melt and read by nothing.
NoColumn == "<no column>"
OptionalCols == <<"SITE_BRAND", "CAMPAIGN_NAME", "SITE_COUNTRY">>
DefaultCampaign == "NF_Campaign_Name"

Range(s) == {s[i] : i \in 1..Len(s)}

Digits == <<"0", "1", "2", "3", "4", "5", "6", "7", "8", "9">>

\* str(n) of a non-negative integer
RECURSIVE Str(_)
Str(n) == IF n < 10 THEN <<Digits[n + 1]>> ELSE Str(n \div 10) \o <<Digits[(n % 10) + 1]>>

IsEmptyCell(c) == c = NaN \/ c = Empty

\* ---------------------------------------------------------------- melt and prune
LongRecord(row, lang) ==
    [Priority |-> row.Priority, Module_Type |-> row.Module_Type,
     DB_Field_Name |-> row.DB_Field_Name, SITE_BRAND |-> row.SITE_BRAND,
     CAMPAIGN_NAME |-> row.CAMPAIGN_NAME, SITE_COUNTRY |-> row.SITE_COUNTRY,
     SITE_LANGUAGE |-> lang, Content |-> row.cells[lang]]

\* df.melt(id_vars=existing_meta, value_vars=lang_cols, ...): column by column, each in row order
RECURSIVE melt(_, _)
melt(d, lc) ==
    IF lc = <<>> THEN <<>>
    ELSE [r \in 1..Len(d) |-> LongRecord(d[r], Head(lc))] \o melt(d, Tail(lc))

HasContent(rec) == ~IsEmptyCell(rec.Content)

\* melted.dropna(subset=['Content']); melted[melted['Content'] != ""]
DropEmpty(m) == SelectSeq(m, HasContent)

\* ---------------------------------------------------------------- generate_csv_logic
\* df[lang].fillna(df['EN']) for one cell: only an absent value is filled
fillna(cell, en) == IF cell = NaN THEN en ELSE cell

\* 1. Fallback Logic: the caller's table itself is assigned to
FallbackFill(d, lc, use_english_fallback) ==
    IF use_english_fallback /\ "EN" \in Range(lc)
    THEN [r \in 1..Len(d) |->
            [d[r] EXCEPT !.cells =
                [l \in DOMAIN d[r].cells |->
                    IF l # "EN" THEN fillna(d[r].cells[l], d[r].cells["EN"])
                    ELSE d[r].cells[l]]]]
    ELSE d

\* 4. Clean & Validate: row is the record as iterrows handed it out, so 'Content' of an
\* error is the text before cleaning (the rows hold an integer Priority beside text
\* columns, and iterrows copies such rows)
CsvErrorOf(rec) ==
    [Lang |-> rec.SITE_LANGUAGE, Field |-> rec.DB_Field_Name,
     Error |-> validate_and_clean_rpl(rec.Content).err, Content |-> rec.Content]

\* the slip of letting a WARNING pass
IsErrorMut(e) == e.Error # None /\ e.Error[1] = "CRITICAL"
\* if error_msg:
IsError(e) == e.Error # None

CsvErrors(m) == SelectSeq([i \in 1..Len(m) |-> CsvErrorOf(m[i])], IsError)

\* melted.at[index, 'Content'] = cleaned
CleanLong(m) ==
    [i \in 1..Len(m) |-> [m[i] EXCEPT !.Content = validate_and_clean_rpl(@).text]]

\* the slip of leaving Module_Type out of the index
pivot_indexMut(opt) ==
    <<"SITE_LANGUAGE", "Priority">> \o SelectSeq(OptionalCols, LAMBDA c : c \in opt)
\* 5. pivot_index
pivot_index(opt) ==
    <<"SITE_LANGUAGE", "Priority", "Module_Type">>
        \o SelectSeq(OptionalCols, LAMBDA c : c \in opt)

GroupKey(rec, pidx) == [i \in 1..Len(pidx) |-> rec[pidx[i]]]

\* aggfunc='first': the first value met for the group and field, NaN when there is none
First(m, pidx, key, field) ==
    LET hits == {i \in 1..Len(m) : GroupKey(m[i], pidx) = key /\ m[i].DB_Field_Name = field}
    IN IF hits = {} THEN NaN
       ELSE m[CHOOSE i \in hits : \A j \in hits : i <= j].Content

KeyValue(key, pidx, name, default) ==
    IF name \in Range(pidx) THEN key[CHOOSE i \in 1..Len(pidx) : pidx[i] = name] ELSE default

\* the order of Python's str comparison (by code point) on the names the tables hold
Collation ==
    <<"A", "ALL", "B", "Body", "DE", "EN", "Email", "NF_Campaign_Name", "Push", "SE", "SV",
      "Spring", "Subject">>

Rank(name) == CHOOSE i \in 1..Len(Collation) : Collation[i] = name

\* group keys compare position by position: Priority as a number, the rest as strings
KeyLess(a, b, pidx) ==
    \E i \in 1..Len(pidx) :
        /\ \A j \in 1..(i - 1) : a[j] = b[j]
        /\ IF pidx[i] = "Priority" THEN a[i] < b[i] ELSE Rank(a[i]) < Rank(b[i])

\* pivot_table sorts the groups (groupby, sort=True)
RECURSIVE SortKeys(_, _)
SortKeys(keys, pidx) ==
    IF keys = {} THEN <<>>
    ELSE LET least == CHOOSE k \in keys : \A o \in keys \ {k} : KeyLess(k, o, pidx)
         IN <<least>> \o SortKeys(keys \ {least}, pidx)

\* ... and the DB_Field_Name columns (sort_index(axis=1))
RECURSIVE SortNames(_)
SortNames(names) ==
    IF names = {} THEN <<>>
    ELSE LET least == CHOOSE n \in names : \A o \in names \ {n} : Rank(n) < Rank(o)
         IN <<least>> \o SortNames(names \ {least})

\* 5.-6. pivot_table(...).reset_index(), the default columns and the renames: one wide row
\* per group, in the order of the groups, with one value (or NaN) per DB_Field_Name
PivotTable(m, opt, default_campaign) ==
    LET pidx == pivot_index(opt)
        fields == {m[i].DB_Field_Name : i \in 1..Len(m)}
        keys == SortKeys({GroupKey(m[i], pidx) : i \in 1..Len(m)}, pidx)
    IN [n \in 1..Len(keys) |->
          [SITE_LANGUAGE |-> KeyValue(keys[n], pidx, "SITE_LANGUAGE", NoColumn),
           PRIORITY |-> KeyValue(keys[n], pidx, "Priority", 0),
           SITE_BRAND |-> KeyValue(keys[n], pidx, "SITE_BRAND", "ALL"),
           CAMPAIGN_NAME |-> KeyValue(keys[n], pidx, "CAMPAIGN_NAME", default_campaign),
           SITE_COUNTRY |-> KeyValue(keys[n], pidx, "SITE_COUNTRY", "ALL"),
           values |-> [f \in fields |-> First(m, pidx, keys[n], f)]]
              @@ ("MODULE" :> KeyValue(keys[n], pidx, "Module_Type", NoColumn))]

Renamed(c) == IF c = "Priority" THEN "PRIORITY" ELSE IF c = "Module_Type" THEN "MODULE" ELSE c

\* final_df.columns: the pivot index, the DB_Field_Name columns, then the default columns
\* in the order they are added
Columns(m, opt) ==
    [i \in 1..Len(pivot_index(opt)) |-> Renamed(pivot_index(opt)[i])]
        \o SortNames({m[i].DB_Field_Name : i \in 1..Len(m)})
        \o SelectSeq(<<"CAMPAIGN_NAME", "SITE_BRAND", "SITE_COUNTRY">>, LAMBDA c : c \notin opt)

\* one field of a line of to_csv: a number in decimal, NaN as the empty field
CsvField(w, fields, c) ==
    IF c \in fields THEN (IF w.values[c] = NaN THEN Empty ELSE w.values[c])
    ELSE IF c = "PRIORITY" THEN Str(w.PRIORITY)
    ELSE w[c]

BOM == <<"BOM">>

\* 7. final_df.to_csv(index=False, sep=',').encode('utf-8-sig'): the byte-order mark, the
\* header line, one line per wide row (quoting and line ends are not represented)
to_csv(final, columns, fields) ==
    <<BOM, columns>>
        \o [n \in 1..Len(final) |->
               [i \in 1..Len(columns) |-> CsvField(final[n], fields, columns[i])]]

\* generate_csv_logic(df, existing_meta, lang_cols, default_campaign, use_english_fallback)
\* -> [df: the caller's table after the call, out: what is returned (csv_bytes, with
\* final_df, the table the bytes are written from, kept beside it)]
generate_csv_logic(d, opt, lc, default_campaign, use_english_fallback) ==
    LET filled == FallbackFill(d, lc, use_english_fallback)
        melted == DropEmpty(melt(filled, lc))
        errors == CsvErrors(melted)
    IN IF errors # <<>>
       THEN [df |-> filled, out |-> [kind |-> "errors", errors |-> errors]]
       ELSE [df |-> filled,
             out |-> LET cleanedLong == CleanLong(melted)
                         final_df == PivotTable(cleanedLong, opt, default_campaign)
                         fields == {cleanedLong[i].DB_Field_Name : i \in 1..Len(cleanedLong)}
                     IN [kind |-> "csv", final_df |-> final_df,
                         csv_bytes |-> to_csv(final_df, Columns(cleanedLong, opt), fields)]]

\* ---------------------------------------------------------------- generate_json_logic
MATCH_KEYS == <<"CAMPAIGN_NAME", "PRIORITY", "SITE_LANGUAGE", "SITE_BRAND">>

MergeRule ==
    [matchColumnName1 |-> "CAMPAIGN_NAME", matchColumnName2 |-> "PRIORITY",
     matchColumnName3 |-> "SITE_LANGUAGE", matchColumnName4 |-> "SITE_BRAND",
     optinValue |-> "I", rejectRecordIfChannelEmpty |-> "I",
     defaultPermissionStatus |-> "OPTIN"]

\* df.at[idx, col] = cleaned, for every cell of every language column
CleanInPlace(d, lc) ==
    [r \in 1..Len(d) |->
        [d[r] EXCEPT !.cells =
            [l \in DOMAIN d[r].cells |->
                IF l \in Range(lc) THEN validate_and_clean_rpl(d[r].cells[l]).text
                ELSE d[r].cells[l]]]]

\* the rows are indexed from 0 (RangeIndex)
JsonErrorOf(d, r, col) ==
    [Row |-> r - 1, Lang |-> col,
     Error |-> validate_and_clean_rpl(d[r].cells[col]).err, Content |-> d[r].cells[col]]

RECURSIVE JsonErrors(_, _)
JsonErrors(d, lc) ==
    IF lc = <<>> THEN <<>>
    ELSE SelectSeq([r \in 1..Len(d) |-> JsonErrorOf(d, r, Head(lc))], IsError)
             \o JsonErrors(d, Tail(lc))

\* Add defaults if missing in original
AddDefaults(m, opt, default_campaign) ==
    [i \in 1..Len(m) |->
        [m[i] EXCEPT
            !.CAMPAIGN_NAME = IF "CAMPAIGN_NAME" \in opt THEN @ ELSE default_campaign,
            !.SITE_BRAND = IF "SITE_BRAND" \in opt THEN @ ELSE "ALL"]]

KeyOf(rec) == <<rec.CAMPAIGN_NAME, rec.Priority, rec.SITE_LANGUAGE, rec.SITE_BRAND>>

\* drop_duplicates(): the first occurrence of each is kept, in order
RECURSIVE drop_duplicates(_)
drop_duplicates(s) ==
    IF s = <<>> THEN <<>>
    ELSE LET before == drop_duplicates(SubSeq(s, 1, Len(s) - 1))
             last == s[Len(s)]
         IN IF last \in Range(before) THEN before ELSE Append(before, last)

unique_keys(m) == drop_duplicates([i \in 1..Len(m) |-> KeyOf(m[i])])

\* the records of one key: SITE_BRAND is no part of the filter
subset(m, key) ==
    SelectSeq(m, LAMBDA rec : /\ rec.CAMPAIGN_NAME = key[1]
                              /\ rec.Priority = key[2]
                              /\ rec.SITE_LANGUAGE = key[3])

active_fields(sub) == MATCH_KEYS \o [i \in 1..Len(sub) |-> sub[i].DB_Field_Name]

\* the slip of leaving the brand out of the values
record_valuesMut(key, sub) ==
    <<key[1], Str(key[2]), key[3]>> \o [i \in 1..Len(sub) |-> sub[i].Content]

\* record_values: the key, stringified, then each Content (a text already)
record_values(key, sub) ==
    <<key[1], Str(key[2]), key[3], key[4]>> \o [i \in 1..Len(sub) |-> sub[i].Content]

\* the slip of comparing shapes as sets of names
SameShapeMut(a, b) == Range(a) = Range(b)
\* shape_signature in grouped_payloads: tuples are equal when equal position by position
SameShape(a, b) == a = b

\* grouped_payloads[shape_signature].append(record_values); a dict keeps insertion order
AddToGroup(grouped, shape, values) ==
    IF \E i \in 1..Len(grouped) : SameShape(grouped[i].shape, shape)
    THEN LET i == CHOOSE i \in 1..Len(grouped) : SameShape(grouped[i].shape, shape)
         IN [grouped EXCEPT ![i].records = Append(@, values)]
    ELSE Append(grouped, [shape |-> shape, records |-> <<values>>])

RECURSIVE GroupByShape(_, _, _)
GroupByShape(m, keys, grouped) ==
    IF keys = <<>> THEN grouped
    ELSE LET sub == subset(m, Head(keys)) IN
         IF sub = <<>> THEN GroupByShape(m, Tail(keys), grouped)
         ELSE GroupByShape(m, Tail(keys),
                  AddToGroup(grouped, active_fields(sub), record_values(Head(keys), sub)))

\* Construct Final JSON Objects
Payloads(grouped) ==
    [i \in 1..Len(grouped) |->
        [recordData |-> [fieldNames |-> grouped[i].shape, records |-> grouped[i].records],
         mergeRule |-> MergeRule]]

\* generate_json_logic(df, existing_meta, lang_cols, default_campaign)
\* -> [df: the caller's table after the call, out: what is returned]
generate_json_logic(d, opt, lc, default_campaign) ==
    LET errors == JsonErrors(d, lc)
        cleanedDf == CleanInPlace(d, lc)
        melted == AddDefaults(DropEmpty(melt(cleanedDf, lc)), opt, default_campaign)
    IN IF errors # <<>>
       THEN [df |-> cleanedDf, out |-> [kind |-> "errors", errors |-> errors]]
       ELSE [df |-> cleanedDf,
             out |-> [kind |-> "json",
                      json_outputs |-> Payloads(GroupByShape(melted, unique_keys(melted), <<>>))]]

\* ---------------------------------------------------------------- tables and calls
FieldOfRow(r) == IF r % 2 = 1 THEN "Subject" ELSE "Body"

\* tables whose cell texts vary: rows "Subject", "Body" of priority 1, 2, ... of one module,
\* no optional column, a first language column and SV
TextsEN ==
    {NaN, Empty, <<" ">>, <<"H", "i">>, <<"LDQUO", "}">>, <<"$", "{", " ", "n", "}">>}
TextsSV == {NaN, Empty, <<"H", "e", "j">>}

ContentRow(r, first, a, sv) ==
    [Priority |-> (r + 1) \div 2, Module_Type |-> "Email", DB_Field_Name |-> FieldOfRow(r),
     SITE_BRAND |-> NoColumn, CAMPAIGN_NAME |-> NoColumn, SITE_COUNTRY |-> NoColumn,
     cells |-> [l \in {first, "SV"} |-> IF l = first THEN a ELSE sv]]

ContentTables(first, svTexts) ==
    {[r \in 1..ContentRows |-> ContentRow(r, first, a[r], sv[r])] :
        a \in [1..ContentRows -> TextsEN], sv \in [1..ContentRows -> svTexts]}

\* tables whose metadata varies: every EN cell holds a text of its own; the SV column is
\* translated in no row, in the first row or in all rows; with a SITE_BRAND column the first
\* row is of another brand than the rest; the last row is of the module lastModule
OptChoices == {{}, {"SITE_BRAND"}, {"SITE_BRAND", "CAMPAIGN_NAME", "SITE_COUNTRY"}}
SvChoices == {"none", "first", "all"}

ShapeRow(r, prio, field, opt, svRows, lastModule) ==
    [Priority |-> prio, Module_Type |-> IF r = ShapeRows THEN lastModule ELSE "Email",
     DB_Field_Name |-> field,
     SITE_BRAND |-> IF "SITE_BRAND" \in opt THEN (IF r = 1 THEN "A" ELSE "B") ELSE NoColumn,
     CAMPAIGN_NAME |-> IF "CAMPAIGN_NAME" \in opt THEN "Spring" ELSE NoColumn,
     SITE_COUNTRY |-> IF "SITE_COUNTRY" \in opt THEN "SE" ELSE NoColumn,
     cells |-> [l \in {"EN", "SV"} |->
                  IF l = "EN" THEN <<"e">> \o Str(r)
                  ELSE IF svRows = "all" \/ (svRows = "first" /\ r = 1)
                       THEN <<"s">> \o Str(r) ELSE NaN]]

ShapeTables(opt) ==
    {[r \in 1..ShapeRows |-> ShapeRow(r, prio[r], field[r], opt, svRows, lastModule)] :
        prio \in {p \in [1..ShapeRows -> {1, 2}] : p[1] = 1},
        field \in {f \in [1..ShapeRows -> {"Subject", "Body"}] : f[1] = "Subject"},
        svRows \in SvChoices, lastModule \in {"Email", "Push"}}

Init ==
    /\ \/ existing_opt = {} /\ lang_cols = <<"EN", "SV">>
          /\ orig \in ContentTables("EN", TextsSV)
       \/ existing_opt = {} /\ lang_cols = <<"DE", "SV">>
          /\ orig \in ContentTables("DE", {NaN})
       \/ existing_opt \in OptChoices /\ lang_cols = <<"EN", "SV">>
          /\ orig \in ShapeTables(existing_opt)
    /\ df = orig
    /\ call = <<"none">> /\ arg = <<>> /\ out = [kind |-> "none"]
    /\ IdleValidator /\ IdleLoader

\* csv_data, error_df = generate_csv_logic(df, meta, langs, default_campaign, use_fallback)
GenerateCsv(use_fallback) ==
    /\ orig # <<>>
    /\ LET r == generate_csv_logic(df, existing_opt, lang_cols, DefaultCampaign, use_fallback)
       IN df' = r.df /\ out' = r.out
    /\ call' = <<"csv", use_fallback>>
    /\ arg' = df
    /\ UNCHANGED <<orig, existing_opt, lang_cols>> /\ UNCHANGED vvars /\ UNCHANGED lvars

\* json_list, error_df = generate_json_logic(df, meta, langs, default_campaign)
GenerateJson ==
    /\ orig # <<>>
    /\ LET r == generate_json_logic(df, existing_opt, lang_cols, DefaultCampaign)
       IN df' = r.df /\ out' = r.out
    /\ call' = <<"json">>
    /\ arg' = df
    /\ UNCHANGED <<orig, existing_opt, lang_cols>> /\ UNCHANGED vvars /\ UNCHANGED lvars

\* df, meta, langs, err = load_and_prep_data(uploaded_file): the app loads the file anew on
\* every button press; a caller that keeps the loaded table calls the generators without
Reload ==
    /\ orig # <<>> /\ call # <<"none">>
    /\ df' = orig
    /\ call' = <<"none">> /\ arg' = <<>> /\ out' = [kind |-> "none"]
    /\ UNCHANGED <<orig, existing_opt, lang_cols>> /\ UNCHANGED vvars /\ UNCHANGED lvars

Next ==
    \/ \E use_fallback \in BOOLEAN : GenerateCsv(use_fallback)
    \/ GenerateJson
    \/ Reload

Spec == Init /\ [][Next]_vars

\* ---------------------------------------------------------------- C4
\* positions of the two markers, counted as sets
OpenAt(t) == {i \in 1..Len(t) : i + 1 <= Len(t) /\ t[i] = "$" /\ t[i + 1] = "{"}
CloseAt(t) == {i \in 1..Len(t) : t[i] = "}"}
InnerSpace(t) ==
    \/ \E i \in OpenAt(t) : i + 2 <= Len(t) /\ t[i + 2] \in WhiteSpace
    \/ \E i \in CloseAt(t) : i > 1 /\ t[i - 1] \in WhiteSpace

\* the outcome the claim's decision order gives when the conditions are read on text u
Decided(u) ==
    IF Cardinality(OpenAt(u)) # Cardinality(CloseAt(u))
    THEN Critical(Cardinality(OpenAt(u)), Cardinality(CloseAt(u)))
    ELSE IF InnerSpace(u) THEN Warning ELSE None

\* C4 as stated: for every non-empty text the error is decided on the given text (CRITICAL on
\* differing counts of "${" and "}", else WARNING on whitespace right after "${" or right
\* before "}", else none), and the cleaned text is returned.
C4_Original ==
    (vpc = "done" /\ text # NaN /\ text # Empty) =>
        /\ error_msg = Decided(text)
        /\ cleaned = CleanText(text)

\* C4 amended: the same decision order, with both conditions read on the text after
\* surrounding whitespace is trimmed (and typography replaced); the cleaned text is returned
\* in all three cases and at most one error is reported.
C4_Theorem ==
    (vpc = "done" /\ text # NaN /\ text # Empty) =>
        /\ error_msg = Decided(Typography(Strip(text)))
        /\ error_msg \in {None, Warning} \cup
               {Critical(o, c) : o \in 0..MaxLen + 1, c \in 0..MaxLen + 1}
        /\ cleaned = Typography(Strip(text))

\* a balanced text whose only whitespace next to a marker is trimmed away: no error
C4_Witness ==
    /\ vpc = "done" /\ text # NaN /\ text # Empty
    /\ Cardinality(OpenAt(text)) = Cardinality(CloseAt(text))
    /\ InnerSpace(text) /\ ~InnerSpace(cleaned)
    /\ error_msg = None

\* ---------------------------------------------------------------- C9
Tried(what) == \E i \in 1..Len(log) : log[i] = what
IsAttempt(e) == e \in {"default", "semicolon", "sniff"}

AttemptOrder ==
    /\ log # <<>> => log[1] = "default"
    /\ \A i \in 2..Len(log) : log[i] # "default"
    /\ Tried("semicolon") => (file[1] # Raise /\ file[1][2] <= 1)
    /\ \A i \in 1..Len(log) : (i > 1 /\ IsAttempt(log[i])) => log[i - 1] = "seek"

\* C9 as stated: default first; semicolon only after a default parse of at most one column;
\* sniffing tried whenever the semicolon attempt failed, and only then; a rewind before
\* every retry.
C9_Original ==
    /\ AttemptOrder
    /\ lpc = "done" => (Tried("sniff") <=> (Tried("semicolon") /\ file[2] = Raise))

\* C9 amended: default first; semicolon only after a default parse of at most one column;
\* sniffing is tried exactly when the default attempt or the semicolon attempt raised an
\* error (a default parse that raises goes to sniffing without a semicolon attempt); a
\* rewind before every retry.
C9_Theorem ==
    /\ AttemptOrder
    /\ lpc = "done" =>
        /\ Tried("sniff") <=> (file[1] = Raise \/ (Tried("semicolon") /\ file[2] = Raise))
        /\ Tried("semicolon") <=> (file[1] # Raise /\ file[1][2] <= 1)

\* the default parse raised, and sniffing ran without a semicolon attempt
C9_Witness ==
    /\ lpc = "done" /\ file[1] = Raise
    /\ log = <<"default", "seek", "sniff">>

\* ---------------------------------------------------------------- the generators' claims
IsCsv == call[1] = "csv"
IsJson == call[1] = "json"
Called == call # <<"none">>

TableCells == {<<r, l>> : r \in 1..Len(arg), l \in Range(lang_cols)}

\* the text a cell holds when the validator is given it: what the call was given, an absent
\* cell of another language column holding the row's EN cell when the fallback applies
ValidatedText(r, l) ==
    IF IsCsv /\ call[2] /\ "EN" \in Range(lang_cols) /\ l # "EN" /\ arg[r].cells[l] = NaN
    THEN arg[r].cells["EN"]
    ELSE arg[r].cells[l]

ValidatedCells ==
    IF IsJson THEN TableCells
    ELSE {c \in TableCells : ~IsEmptyCell(ValidatedText(c[1], c[2]))}

Fails(c) == ~IsEmptyCell(c) /\ Decided(Typography(Strip(c))) # None

FailingCells == {c \in ValidatedCells : Fails(ValidatedText(c[1], c[2]))}

\* C1: a call returns exactly one of an output and an error list; an output only when no
\* validated cell fails; the error list has one entry for every failing cell.
C1_Theorem ==
    Called =>
        /\ out.kind \in {"errors", call[1]}
        /\ DOMAIN out = {"kind", IF out.kind = "errors" THEN "errors"
                                 ELSE IF IsCsv THEN "csv_bytes" ELSE "json_outputs"}
                         \cup (IF out.kind = "csv" THEN {"final_df"} ELSE {})
        /\ out.kind # "errors" => FailingCells = {}
        /\ out.kind = "errors" =>
            /\ Len(out.errors) > 0
            /\ Len(out.errors) = Cardinality(FailingCells)
            /\ \A c \in FailingCells : \E i \in 1..Len(out.errors) :
                /\ out.errors[i].Lang = c[2]
                /\ out.errors[i].Error = Decided(Typography(Strip(ValidatedText(c[1], c[2]))))
                /\ IsJson => out.errors[i].Row = c[1] - 1
                /\ IsCsv => out.errors[i].Field = arg[c[1]].DB_Field_Name

\* a CSV call that returns the errors of several cells, a WARNING and a CRITICAL among them
C1_Witness ==
    /\ IsCsv /\ out.kind = "errors" /\ Len(out.errors) >= 2
    /\ \E i, j \in 1..Len(out.errors) :
        out.errors[i].Error = Warning /\ out.errors[j].Error[1] = "CRITICAL"

\* C2: in every payload every record has len(fieldNames) values, each value under the name
\* of the field it was read from, and fieldNames begins with the four match fields.
C2_Theorem ==
    out.kind = "json" =>
        \A i \in 1..Len(out.json_outputs) :
            LET p == out.json_outputs[i].recordData IN
            /\ Len(p.fieldNames) >= 4
            /\ SubSeq(p.fieldNames, 1, 4) =
                   <<"CAMPAIGN_NAME", "PRIORITY", "SITE_LANGUAGE", "SITE_BRAND">>
            /\ \A j \in 1..Len(p.records) :
                LET rec == p.records[j] IN
                /\ Len(rec) = Len(p.fieldNames)
                /\ \A n \in 5..Len(rec) : \E r \in 1..Len(arg) :
                    /\ arg[r].DB_Field_Name = p.fieldNames[n]
                    /\ Str(arg[r].Priority) = rec[2]
                    /\ arg[r].cells[rec[3]] # NaN
                    /\ Typography(Strip(arg[r].cells[rec[3]])) = rec[n]

\* a payload with two records that differ in SITE_BRAND alone, each of several source rows
C2_Witness ==
    /\ out.kind = "json"
    /\ \E i \in 1..Len(out.json_outputs) :
        LET p == out.json_outputs[i].recordData IN
        /\ Len(p.fieldNames) >= 6
        /\ \E j, k \in 1..Len(p.records) :
            /\ p.records[j][4] # p.records[k][4]
            /\ SubSeq(p.records[j], 1, 3) = SubSeq(p.records[k], 1, 3)
            /\ SubSeq(p.records[j], 5, 6) = SubSeq(p.records[k], 5, 6)

\* a cell that yields a long record in the JSON path: not empty once cleaned
Live(r, l) == ~IsEmptyCell(arg[r].cells[l]) /\ Typography(Strip(arg[r].cells[l])) # Empty

BrandOf(r) == IF "SITE_BRAND" \in existing_opt THEN arg[r].SITE_BRAND ELSE "ALL"

\* the key tuples of the table (its rows share one CAMPAIGN_NAME): <<Priority, language, brand>>
JsonKeys == {<<arg[c[1]].Priority, c[2], BrandOf(c[1])>> : c \in {d \in TableCells : Live(d[1], d[2])}}

RECURSIVE FieldsFrom(_, _, _)
FieldsFrom(r, prio, lang) ==
    IF r > Len(arg) THEN <<>>
    ELSE (IF arg[r].Priority = prio /\ Live(r, lang) THEN <<arg[r].DB_Field_Name>> ELSE <<>>)
            \o FieldsFrom(r + 1, prio, lang)

\* the ordered field list of a key tuple
FieldListOf(k) ==
    <<"CAMPAIGN_NAME", "PRIORITY", "SITE_LANGUAGE", "SITE_BRAND">> \o FieldsFrom(1, k[1], k[2])

LandsIn(k, i) ==
    \E j \in 1..Len(out.json_outputs[i].recordData.records) :
        LET rec == out.json_outputs[i].recordData.records[j] IN
        rec[2] = Str(k[1]) /\ rec[3] = k[2] /\ rec[4] = k[3]

\* C3: two key tuples land in the same payload exactly when their ordered field lists are
\* identical, each in the payload of its own field list, and no two payloads share fieldNames.
C3_Theorem ==
    out.kind = "json" =>
        LET n == Len(out.json_outputs) IN
        /\ \A i, j \in 1..n :
            i # j => out.json_outputs[i].recordData.fieldNames
                        # out.json_outputs[j].recordData.fieldNames
        /\ \A k \in JsonKeys : \E i \in 1..n :
            LandsIn(k, i) /\ out.json_outputs[i].recordData.fieldNames = FieldListOf(k)
        /\ \A k1, k2 \in JsonKeys :
            (FieldListOf(k1) = FieldListOf(k2)) <=> (\E i \in 1..n : LandsIn(k1, i) /\ LandsIn(k2, i))

\* two payloads whose fieldNames hold the same names in another order
C3_Witness ==
    /\ out.kind = "json"
    /\ \E i, j \in 1..Len(out.json_outputs) :
        LET a == out.json_outputs[i].recordData.fieldNames
            b == out.json_outputs[j].recordData.fieldNames
        IN a # b /\ Len(a) = Len(b) /\ Range(a) = Range(b)

\* the text of a cell, an absent cell read as the empty text
TextOf(c) == IF c = NaN THEN Empty ELSE c

\* C5 as stated: after a CSV call with fallback on a table with an EN column, every cell of
\* another language column holds its previous value if that was non-empty and the text of
\* the row's EN cell if it was empty (absent or the empty string).
C5_Original ==
    (IsCsv /\ call[2] /\ "EN" \in Range(lang_cols)) =>
        \A r \in 1..Len(arg) : \A l \in Range(lang_cols) \ {"EN"} :
            TextOf(df[r].cells[l]) =
                IF IsEmptyCell(arg[r].cells[l]) THEN TextOf(arg[r].cells["EN"])
                ELSE arg[r].cells[l]

\* C6 as stated: every returned error carries the language, the field name, the message and
\* the cleaned text of a failing cell.
C6_Original ==
    out.kind = "errors" =>
        \A i \in 1..Len(out.errors) :
            LET e == out.errors[i] IN
            /\ {"Lang", "Field", "Error", "Content"} \subseteq DOMAIN e
            /\ \E r \in 1..Len(arg) :
                /\ arg[r].DB_Field_Name = e.Field
                /\ Fails(ValidatedText(r, e.Lang))
                /\ e.Error = Decided(Typography(Strip(ValidatedText(r, e.Lang))))
                /\ e.Content = Typography(Strip(ValidatedText(r, e.Lang)))

\* the rows of the table given to the call that fall into the group of wide row w
InGroup(w, r, l) ==
    /\ w.SITE_LANGUAGE = l
    /\ w.PRIORITY = arg[r].Priority
    /\ w["MODULE"] = arg[r].Module_Type
    /\ "SITE_BRAND" \in existing_opt => w.SITE_BRAND = arg[r].SITE_BRAND
    /\ "CAMPAIGN_NAME" \in existing_opt => w.CAMPAIGN_NAME = arg[r].CAMPAIGN_NAME
    /\ "SITE_COUNTRY" \in existing_opt => w.SITE_COUNTRY = arg[r].SITE_COUNTRY

SameGroupAndField(r1, r2) ==
    /\ arg[r1].Priority = arg[r2].Priority
    /\ arg[r1].Module_Type = arg[r2].Module_Type
    /\ "SITE_BRAND" \in existing_opt => arg[r1].SITE_BRAND = arg[r2].SITE_BRAND
    /\ "CAMPAIGN_NAME" \in existing_opt => arg[r1].CAMPAIGN_NAME = arg[r2].CAMPAIGN_NAME
    /\ "SITE_COUNTRY" \in existing_opt => arg[r1].SITE_COUNTRY = arg[r2].SITE_COUNTRY
    /\ arg[r1].DB_Field_Name = arg[r2].DB_Field_Name

\* every cell non-empty, valid and already clean, and no two rows of one group and field
RoundTripInput ==
    /\ \A c \in TableCells :
        LET t == arg[c[1]].cells[c[2]] IN
        ~IsEmptyCell(t) /\ ~Fails(t) /\ Typography(Strip(t)) = t
    /\ \A r1, r2 \in 1..Len(arg) : r1 # r2 => ~SameGroupAndField(r1, r2)

\* C7: on such a table the CSV path yields, for every source row and language, exactly one
\* wide row of that group, holding the cell's content under the row's DB_Field_Name, and
\* the wide rows hold no other value.
C7_Theorem ==
    (IsCsv /\ RoundTripInput) =>
        /\ out.kind = "csv"
        /\ Len(out.csv_bytes) = 2 + Len(out.final_df)
        /\ \A c \in TableCells :
            LET ws == {w \in Range(out.final_df) : InGroup(w, c[1], c[2])} IN
            /\ Cardinality(ws) = 1
            /\ \A w \in ws : w.values[arg[c[1]].DB_Field_Name] = arg[c[1]].cells[c[2]]
        /\ \A w \in Range(out.final_df) : \A f \in DOMAIN w.values :
            w.values[f] # NaN =>
                \E c \in TableCells : InGroup(w, c[1], c[2]) /\ arg[c[1]].DB_Field_Name = f

\* a round trip over rows of two modules and two priorities, with combinations left absent
C7_Witness ==
    /\ IsCsv /\ RoundTripInput /\ out.kind = "csv"
    /\ \E r1, r2 \in 1..Len(arg) : arg[r1].Module_Type # arg[r2].Module_Type
    /\ \E r1, r2 \in 1..Len(arg) : arg[r1].Priority # arg[r2].Priority
    /\ \E w \in Range(out.final_df) : \E f \in DOMAIN w.values : w.values[f] = NaN

\* the result the same call returns on a fresh copy of the table as loaded
FreshOut ==
    IF IsCsv THEN generate_csv_logic(orig, existing_opt, lang_cols, DefaultCampaign, call[2]).out
    ELSE generate_json_logic(orig, existing_opt, lang_cols, DefaultCampaign).out

\* C8 as stated: the calls are isolated, so after any earlier calls on the same loaded table
\* a call returns what it returns as the first call on a fresh copy of that table.
C8_Original == Called => out = FreshOut

\* C10 as stated: in a successful CSV run no value of the pivoted table is the empty text.
C10_Original ==
    out.kind = "csv" =>
        \A w \in Range(out.final_df) : \A f \in DOMAIN w.values : w.values[f] # Empty
====
